---- MODULE Spec2Model ----
(***************************************************************************)
(* Sassafras block verification (client/consensus/sassafras/src/lib.rs):   *)
(* the digest readers, SassafrasVerifier::verify, the                      *)
(* SassafrasBlockImport::import_block wrapper, the TimeSource and          *)
(* Epoch::increment, with the auxiliary store they read and write.         *)
(*                                                                         *)
(* One import-queue worker takes a header, runs verify, hands the          *)
(* resulting BlockImportParams to import_block and then takes the next     *)
(* header.  `job` keeps the call's arguments and results so that the       *)
(* properties can speak about them.                                        *)
(***************************************************************************)
EXTENDS Integers, Sequences, FiniteSets, TLC

VARIABLES
    store,        \* auxiliary store: block hash -> encoded auxiliary record
    time_source,  \* TimeSource: the Option<Duration> clock drift entry
    pc,           \* the worker's position: "idle", "verified", "done"
    job,          \* the block being processed, with the results so far
    query,        \* a DigestReader query: the header, the reader and its result
    workers       \* concurrent import-queue workers, one per branch

vars == <<store, time_source, pc, job, query, workers>>

----------------------------------------------------------------------------
(* Bounds *)

\* Slots are 1..MaxSlot (the code's SlotNumber is a u64).
MaxSlot == 3
\* Number of blocks imported on top of genesis.
MaxBlocks == 2
\* Longest digest log handed to the DigestReader queries on their own.
MaxLogs == 3
\* Number of concurrent extract_timestamp_and_slot calls.
MaxCallers == 3

Slots == 1..MaxSlot
\* The local clock readings offered to verify.
NowSlots == {MaxSlot - 1, MaxSlot}
AuthorityIndexes == {0, 1}
TicketIndexes == {0, 1, 2}
Keys == {"k1", "k2"}

----------------------------------------------------------------------------
(* Option and Result values *)

None == [some |-> FALSE]
Some(v) == [some |-> TRUE, val |-> v]

\* Vec::get(i) with a zero-based index.
get(vec, i) == IF i + 1 \in DOMAIN vec THEN Some(vec[i + 1]) ELSE None

----------------------------------------------------------------------------
(* Digest items, hashes, signatures, VRFs *)

SASSAFRAS_ENGINE_ID == "SASS"

PreRuntime(pre) == [kind |-> "PreRuntime", engine |-> SASSAFRAS_ENGINE_ID, data |-> pre]
PostBlock(c) == [kind |-> "PostBlock", engine |-> SASSAFRAS_ENGINE_ID, data |-> [commitments |-> c]]
NextEpoch(d) == [kind |-> "NextEpoch", engine |-> SASSAFRAS_ENGINE_ID, data |-> d]
Seal(engine, sig) == [kind |-> "Seal", engine |-> engine, data |-> sig]

as_sassafras_pre_digest(log) ==
    IF log.kind = "PreRuntime" /\ log.engine = SASSAFRAS_ENGINE_ID THEN Some(log.data) ELSE None
as_sassafras_post_block_descriptor(log) ==
    IF log.kind = "PostBlock" /\ log.engine = SASSAFRAS_ENGINE_ID THEN Some(log.data) ELSE None
as_sassafras_next_epoch_descriptor(log) ==
    IF log.kind = "NextEpoch" /\ log.engine = SASSAFRAS_ENGINE_ID THEN Some(log.data) ELSE None
as_sassafras_seal(log) ==
    IF log.kind = "Seal" /\ log.engine = SASSAFRAS_ENGINE_ID THEN Some(log.data) ELSE None

\* Header::hash(): a collision-free digest of the header's content.
hash(header) == <<"H", header.parent, header.logs>>

\* A signature names the key that made it and the message it was made over.
Sign(key, msg) == [signer |-> key, msg |-> msg]
AuthorityPair_verify_any_key(sig, msg, author) == sig.msg = msg
AuthorityPair_verify(sig, msg, author) == sig.signer = author /\ sig.msg = msg

make_ticket_transcript(randomness, slot_number, epoch) ==
    [label |-> SASSAFRAS_ENGINE_ID, type |-> "ticket", slot |-> slot_number,
     epoch |-> epoch, randomness |-> randomness]
make_post_transcript(randomness, slot_number, epoch) ==
    [label |-> SASSAFRAS_ENGINE_ID, type |-> "post", slot |-> slot_number,
     epoch |-> epoch, randomness |-> randomness]

\* The VRF output and the VRF proof a key produces over a transcript.
VRFOutput(key, transcript) == [vrf |-> "output", key |-> key, transcript |-> transcript]
VRFProof(key, transcript) == [vrf |-> "proof", key |-> key, transcript |-> transcript]
vrf_verify(p, transcript, output, proof) ==
    output = VRFOutput(p, transcript) /\ proof = VRFProof(p, transcript)

----------------------------------------------------------------------------
(* DigestReader *)

\* The loop shared by the three readers: `cur` is the local Option, `i` the
\* position in header.digest().logs().
RECURSIVE scan_logs_last_wins(_, _, _, _, _)
scan_logs_last_wins(logs, kind, multiple, i, cur) ==
    IF i > Len(logs) THEN [err |-> "", val |-> cur]
    ELSE LET s == CASE kind = "pre" -> as_sassafras_pre_digest(logs[i])
                    [] kind = "post" -> as_sassafras_post_block_descriptor(logs[i])
                    [] OTHER -> as_sassafras_next_epoch_descriptor(logs[i])
         IN IF ~s.some THEN scan_logs_last_wins(logs, kind, multiple, i + 1, cur)
            ELSE scan_logs_last_wins(logs, kind, multiple, i + 1, s)

RECURSIVE scan_logs(_, _, _, _, _)
scan_logs(logs, kind, multiple, i, cur) ==
    IF i > Len(logs) THEN [err |-> "", val |-> cur]
    ELSE LET s == CASE kind = "pre" -> as_sassafras_pre_digest(logs[i])
                    [] kind = "post" -> as_sassafras_post_block_descriptor(logs[i])
                    [] OTHER -> as_sassafras_next_epoch_descriptor(logs[i])
         IN IF s.some /\ cur.some THEN [err |-> multiple, val |-> None]
            ELSE IF ~s.some THEN scan_logs(logs, kind, multiple, i + 1, cur)
            ELSE scan_logs(logs, kind, multiple, i + 1, s)

find_pre_digest(header) ==
    LET r == scan_logs(header.logs, "pre", "MultiplePreRuntimeDigest", 1, None)
    IN IF r.err # "" THEN r
       ELSE IF ~r.val.some THEN [err |-> "NoPreRuntimeDigest", val |-> None]
       ELSE r

find_post_block_descriptor(header) ==
    scan_logs(header.logs, "post", "MultiplePostBlockDescriptor", 1, None)

find_next_epoch_descriptor(header) ==
    scan_logs(header.logs, "next", "MultipleNextEpochDescriptor", 1, None)

----------------------------------------------------------------------------
(* The auxiliary record *)

PoolAuxiliary(proofs, authorities, randomness, epoch) ==
    [proofs |-> proofs, authorities |-> authorities, randomness |-> randomness,
     epoch |-> epoch]

\* auxiliary.encode(): the fields in declaration order; decode is its inverse.
encode(auxiliary) ==
    <<auxiliary.start_slot, auxiliary.duration, auxiliary.validating,
      auxiliary.publishing, auxiliary.slot>>
decode(bytes) ==
    [start_slot |-> bytes[1], duration |-> bytes[2], validating |-> bytes[3],
     publishing |-> bytes[4], slot |-> bytes[5]]

\* aux_schema::load_auxiliary: the record stored under a block hash.
load_auxiliary(st, parent_hash) ==
    IF parent_hash \in DOMAIN st THEN Some(decode(st[parent_hash])) ELSE None

\* The client knows the header of every imported block.
header_metadata(st, parent_hash) == parent_hash \in DOMAIN st

\* The genesis record, seeded externally: one validating authority holding a
\* ticket for each of the last three slots, and the next set publishing.
GenesisTickets ==
    [i \in 1..3 |->
        VRFProof("k1", make_ticket_transcript("r0", MaxSlot - 3 + i, 0))]
GenesisAuxiliary ==
    [start_slot |-> 1, duration |-> MaxSlot,
     validating |-> PoolAuxiliary(GenesisTickets, <<"k1">>, "r0", 0),
     publishing |-> PoolAuxiliary(<<>>, <<"k2", "k1">>, "r1", 1),
     slot |-> MaxSlot - 1]

----------------------------------------------------------------------------
(* TimeSource *)

\* data.timestamp_inherent_data().and_then(|t| data.sassafras_inherent_data()):
\* both inherents are required.
inherents(data) ==
    IF ~data.timestamp.some \/ ~data.slot.some THEN "InherentData" ELSE ""

take_keeps(entry) == [val |-> entry, left |-> entry]
\* Option::take on the drift entry: the value it held, and None left behind.
take(entry) == [val |-> entry, left |-> None]
\* Option<Duration>::unwrap_or_default: the zero duration for None.
unwrap_or_default(opt) == IF opt.some THEN opt.val ELSE 0

\* extract_timestamp_and_slot: the drift entry is taken only when both
\* inherents are present.
extract_timestamp_and_slot(ts, data) ==
    IF inherents(data) # ""
    THEN [err |-> inherents(data), slot |-> 0, drift |-> 0, time_source |-> ts]
    ELSE LET taken == take(ts)
         IN  [err |-> "", slot |-> data.slot.val,
              drift |-> unwrap_or_default(taken.val), time_source |-> taken.left]

----------------------------------------------------------------------------
(* SassafrasVerifier::verify *)

slot_in_future_ge(slot, slot_now) == slot >= slot_now
slot_in_future(slot, slot_now) == slot > slot_now

\* Vec::pop on the digest log.
pop(logs) == IF Len(logs) = 0 THEN None ELSE Some(logs[Len(logs)])
popped(header) ==
    [header EXCEPT !.logs = IF Len(@) = 0 THEN @ ELSE SubSeq(@, 1, Len(@) - 1)]

check_claim_ticket_first(auxiliary, pre_digest, header) ==
    LET author == get(auxiliary.validating.authorities, pre_digest.authority_index)
        seal == pop(header.logs)
        signature == as_sassafras_seal(seal.val)
        pre_hash == hash(popped(header))
        ticket_vrf_proof == get(auxiliary.validating.proofs, pre_digest.ticket_vrf_index)
        ticket_transcript == make_ticket_transcript(auxiliary.validating.randomness,
                                 pre_digest.slot, auxiliary.validating.epoch)
        post_transcript == make_post_transcript(auxiliary.validating.randomness,
                               pre_digest.slot, auxiliary.validating.epoch)
    IN  IF ~author.some THEN "InvalidAuthorityId"
        ELSE IF ~ticket_vrf_proof.some THEN "InvalidTicketVRFIndex"
        ELSE IF ~vrf_verify(author.val, ticket_transcript,
                            pre_digest.ticket_vrf_output, ticket_vrf_proof.val)
             THEN "TicketVRFVerificationFailed"
        ELSE IF ~seal.some THEN "HeaderUnsealed"
        ELSE IF ~signature.some THEN "InvalidSeal"
        ELSE IF ~AuthorityPair_verify(signature.val, pre_hash, author.val) THEN "InvalidSeal"
        ELSE IF ~vrf_verify(author.val, post_transcript,
                            pre_digest.post_vrf_output, pre_digest.post_vrf_proof)
             THEN "PostVRFVerificationFailed"
        ELSE ""

check_claim_post_from_publishing(auxiliary, pre_digest, header) ==
    LET author == get(auxiliary.validating.authorities, pre_digest.authority_index)
        seal == pop(header.logs)
        signature == as_sassafras_seal(seal.val)
        pre_hash == hash(popped(header))
        ticket_vrf_proof == get(auxiliary.validating.proofs, pre_digest.ticket_vrf_index)
        ticket_transcript == make_ticket_transcript(auxiliary.validating.randomness,
                                 pre_digest.slot, auxiliary.validating.epoch)
        post_transcript == make_post_transcript(auxiliary.publishing.randomness,
                               pre_digest.slot, auxiliary.publishing.epoch)
    IN  IF ~author.some THEN "InvalidAuthorityId"
        ELSE IF ~seal.some THEN "HeaderUnsealed"
        ELSE IF ~signature.some THEN "InvalidSeal"
        ELSE IF ~AuthorityPair_verify(signature.val, pre_hash, author.val) THEN "InvalidSeal"
        ELSE IF ~ticket_vrf_proof.some THEN "InvalidTicketVRFIndex"
        ELSE IF ~vrf_verify(author.val, ticket_transcript,
                            pre_digest.ticket_vrf_output, ticket_vrf_proof.val)
             THEN "TicketVRFVerificationFailed"
        ELSE IF ~vrf_verify(author.val, post_transcript,
                            pre_digest.post_vrf_output, pre_digest.post_vrf_proof)
             THEN "PostVRFVerificationFailed"
        ELSE ""

\* The checks of lines 173-210 in the order the code makes them; "" when all pass.
check_claim(auxiliary, pre_digest, header) ==
    LET author == get(auxiliary.validating.authorities, pre_digest.authority_index)
        seal == pop(header.logs)
        signature == as_sassafras_seal(seal.val)
        pre_hash == hash(popped(header))
        ticket_vrf_proof == get(auxiliary.validating.proofs, pre_digest.ticket_vrf_index)
        ticket_transcript == make_ticket_transcript(auxiliary.validating.randomness,
                                 pre_digest.slot, auxiliary.validating.epoch)
        post_transcript == make_post_transcript(auxiliary.validating.randomness,
                               pre_digest.slot, auxiliary.validating.epoch)
    IN  IF ~author.some THEN "InvalidAuthorityId"
        ELSE IF ~seal.some THEN "HeaderUnsealed"
        ELSE IF ~signature.some THEN "InvalidSeal"
        ELSE IF ~AuthorityPair_verify(signature.val, pre_hash, author.val) THEN "InvalidSeal"
        ELSE IF ~ticket_vrf_proof.some THEN "InvalidTicketVRFIndex"
        ELSE IF ~vrf_verify(author.val, ticket_transcript,
                            pre_digest.ticket_vrf_output, ticket_vrf_proof.val)
             THEN "TicketVRFVerificationFailed"
        ELSE IF ~vrf_verify(author.val, post_transcript,
                            pre_digest.post_vrf_output, pre_digest.post_vrf_proof)
             THEN "PostVRFVerificationFailed"
        ELSE ""

push_commitments_front(auxiliary, post_block_desc) ==
    [auxiliary EXCEPT !.publishing.proofs = post_block_desc.commitments \o @]
\* auxiliary.publishing.proofs.append(&mut post_block_desc.commitments.clone())
push_commitments(auxiliary, post_block_desc) ==
    [auxiliary EXCEPT !.publishing.proofs = @ \o post_block_desc.commitments]

switch_epoch_proofs_stay(auxiliary, next_epoch_desc) ==
    [auxiliary EXCEPT
        !.validating = [auxiliary.publishing EXCEPT !.proofs = <<>>],
        !.publishing = PoolAuxiliary(auxiliary.publishing.proofs,
                           next_epoch_desc.authorities,
                           next_epoch_desc.randomness,
                           auxiliary.publishing.epoch + 1)]
switch_epoch_skip(auxiliary, next_epoch_desc) ==
    [auxiliary EXCEPT
        !.validating = auxiliary.publishing,
        !.publishing = PoolAuxiliary(<<>>, next_epoch_desc.authorities,
                           next_epoch_desc.randomness,
                           auxiliary.publishing.epoch + 2)]
switch_epoch_no_swap(auxiliary, next_epoch_desc) ==
    [auxiliary EXCEPT
        !.publishing = PoolAuxiliary(<<>>, next_epoch_desc.authorities,
                           next_epoch_desc.randomness,
                           auxiliary.validating.epoch + 1)]
\* mem::swap(publishing, validating), then a fresh publishing set.
switch_epoch(auxiliary, next_epoch_desc) ==
    [auxiliary EXCEPT
        !.validating = auxiliary.publishing,
        !.publishing = PoolAuxiliary(<<>>, next_epoch_desc.authorities,
                           next_epoch_desc.randomness,
                           auxiliary.publishing.epoch + 1)]

VerifyErr(e, ts, now, aux) ==
    [err |-> e, time_source |-> ts, slot_now |-> now, auxiliary |-> aux,
     pre_digest |-> None, params |-> None]

verify(st, ts, header, data) ==
    IF ~data.created THEN VerifyErr("Runtime", ts, None, None) ELSE
    LET ext == extract_timestamp_and_slot(ts, data) IN
    IF ext.err # "" THEN VerifyErr("Extraction", ext.time_source, None, None) ELSE
    LET ts1 == ext.time_source
        slot_now == ext.slot
        parent_hash == header.parent
    IN
    IF ~header_metadata(st, parent_hash)
    THEN VerifyErr("FetchParentHeader", ts1, Some(slot_now), None) ELSE
    LET loaded == load_auxiliary(st, parent_hash) IN
    IF ~loaded.some THEN VerifyErr("ParentUnavailable", ts1, Some(slot_now), None) ELSE
    LET auxiliary == loaded.val
        found == find_pre_digest(header)
    IN
    IF found.err # "" THEN VerifyErr(found.err, ts1, Some(slot_now), loaded) ELSE
    LET pre_digest == found.val.val
        fail(e) == [VerifyErr(e, ts1, Some(slot_now), loaded)
                        EXCEPT !.pre_digest = Some(pre_digest)]
    IN
    IF slot_in_future(pre_digest.slot, slot_now) THEN fail("SlotInFuture") ELSE
    LET stage == check_claim(auxiliary, pre_digest, header) IN
    IF stage # "" THEN fail(stage) ELSE
    LET seal == pop(header.logs).val
        header1 == popped(header)
        post == find_post_block_descriptor(header1)
    IN
    IF post.err # "" THEN fail(post.err) ELSE
    LET aux1 == IF post.val.some THEN push_commitments(auxiliary, post.val.val)
                ELSE auxiliary
        next == find_next_epoch_descriptor(header1)
    IN
    IF next.err # "" THEN fail(next.err) ELSE
    LET aux2 == IF next.val.some THEN switch_epoch(aux1, next.val.val) ELSE aux1
    IN  [err |-> "", time_source |-> ts1, slot_now |-> Some(slot_now),
         auxiliary |-> loaded, pre_digest |-> Some(pre_digest),
         params |-> Some([header |-> header1, post_digests |-> <<seal>>,
                          auxiliary |-> encode(aux2)])]

----------------------------------------------------------------------------
(* SassafrasBlockImport::import_block *)

slot_in_past_lt(slot, last_slot) == slot < last_slot
slot_in_past(slot, last_slot) == slot <= last_slot

block_hash_fixed(st) == 1
\* The key the inner importer files a block under: blocks are numbered in the
\* order of import, so two blocks never share a key.
block_hash(st) == Cardinality(DOMAIN st)

\* The inner BlockImport: stores the block together with block.auxiliary,
\* or fails with an error of its own.
inner_import_block(st, block, inner_ok) ==
    IF inner_ok
    THEN [err |-> "", store |-> [h \in DOMAIN st \cup {block_hash(st)} |->
                                    IF h \in DOMAIN st THEN st[h] ELSE block.auxiliary]]
    ELSE [err |-> "Inner", store |-> st]

ImportErr(e, st, loaded) ==
    [err |-> e, inner_called |-> FALSE, store |-> st, loaded |-> loaded,
     auxiliary |-> None]

\* Lines 298-311: the load, the pre-digest and the slot check, on the store
\* as it is when the record is loaded.
import_check(st, block) ==
    LET parent_hash == block.header.parent
        loaded == load_auxiliary(st, parent_hash)
    IN
    IF ~loaded.some THEN ImportErr("Client", st, None) ELSE
    LET found == find_pre_digest(block.header) IN
    IF found.err # "" THEN ImportErr(found.err, st, loaded) ELSE
    LET pre_digest == found.val.val IN
    IF slot_in_past(pre_digest.slot, loaded.val.slot)
    THEN ImportErr("SlotInPast", st, loaded) ELSE
    LET auxiliary == [loaded.val EXCEPT !.slot = pre_digest.slot]
    IN  [err |-> "", inner_called |-> FALSE, store |-> st, loaded |-> loaded,
         auxiliary |-> Some(auxiliary)]

\* Line 313 after a passed check: the inner importer, on the store as it is
\* then.
import_inner(st, block, inner_ok, checked) ==
    LET import_result == inner_import_block(st, block, inner_ok)
    IN  [err |-> import_result.err, inner_called |-> TRUE,
         store |-> import_result.store, loaded |-> checked.loaded,
         auxiliary |-> checked.auxiliary]

import_block(st, block, inner_ok) ==
    LET checked == import_check(st, block) IN
    IF checked.err # "" THEN checked ELSE import_inner(st, block, inner_ok, checked)

----------------------------------------------------------------------------
(* Epoch (the EpochT implementation) *)

ValidatorSet(proofs, authorities, randomness) ==
    [proofs |-> proofs, authorities |-> authorities, randomness |-> randomness]

increment(self, descriptor) ==
    [epoch_index |-> self.epoch_index + 1,
     start_slot |-> self.start_slot + self.duration,
     duration |-> self.duration,
     validating |-> self.publishing,
     publishing |-> ValidatorSet(<<>>, descriptor.authorities, descriptor.randomness)]

end_slot(self) == self.start_slot + self.duration

\* The Epoch an auxiliary record describes: the current epoch is the one the
\* transcripts are built with, validating.epoch.
EpochOf(auxiliary) ==
    [epoch_index |-> auxiliary.validating.epoch,
     start_slot |-> auxiliary.start_slot,
     duration |-> auxiliary.duration,
     validating |-> ValidatorSet(auxiliary.validating.proofs,
                       auxiliary.validating.authorities, auxiliary.validating.randomness),
     publishing |-> ValidatorSet(auxiliary.publishing.proofs,
                       auxiliary.publishing.authorities, auxiliary.publishing.randomness)]

----------------------------------------------------------------------------
(* The headers and inherent data offered to the verifier *)

Header(parent, logs) == [parent |-> parent, logs |-> logs]

\* A parent hash no block has.
UnknownParent == MaxBlocks + 1

\* The VRF material key `k` produces for slot `s` under validator set `set`.
TicketOutput(k, s, set) ==
    VRFOutput(k, make_ticket_transcript(set.randomness, s, set.epoch))
TicketProof(k, s, set) ==
    VRFProof(k, make_ticket_transcript(set.randomness, s, set.epoch))
PostOutput(k, s, set) ==
    VRFOutput(k, make_post_transcript(set.randomness, s, set.epoch))
PostProof(k, s, set) ==
    VRFProof(k, make_post_transcript(set.randomness, s, set.epoch))

PreDigest(i, s, t, kt, kp, a) ==
    [authority_index |-> i, slot |-> s, ticket_vrf_index |-> t,
     ticket_vrf_output |-> TicketOutput(kt, s, a.validating),
     post_vrf_output |-> PostOutput(kp, s, a.validating),
     post_vrf_proof |-> PostProof(kp, s, a.validating)]

\* Ticket commitments for the last slot of the next epoch.
Commitments1(a) == <<TicketProof("k2", MaxSlot, a.publishing)>>
Commitments2(a) ==
    <<TicketProof("k2", MaxSlot, a.publishing), TicketProof("k1", MaxSlot, a.publishing)>>
Descriptor == [authorities |-> <<"k1", "k2">>, randomness |-> "r2"]

\* The digest items between the pre-digest and the seal.
Descriptors(a) ==
    { <<>>,
      <<PostBlock(Commitments1(a))>>,
      <<PostBlock(Commitments2(a))>>,
      <<NextEpoch(Descriptor)>>,
      <<PostBlock(Commitments2(a)), NextEpoch(Descriptor)>>,
      <<PostBlock(Commitments1(a)), PostBlock(Commitments2(a))>>,
      <<NextEpoch(Descriptor), NextEpoch(Descriptor)>>,
      <<PreRuntime(PreDigest(0, MaxSlot, 0, "k1", "k1", a))>> }

SealKinds == {"k1", "k2", "tampered", "foreign", "absent"}

Sealed(parent, logs, sk) ==
    LET msg == hash(Header(parent, logs)) IN
    CASE sk = "absent" -> Header(parent, logs)
      [] sk = "tampered" ->
            Header(parent, Append(logs, Seal(SASSAFRAS_ENGINE_ID,
                                            Sign("k1", hash(Header(parent, <<>>))))))
      [] sk = "foreign" -> Header(parent, Append(logs, Seal("OTHR", Sign("k1", msg))))
      [] OTHER -> Header(parent, Append(logs, Seal(SASSAFRAS_ENGINE_ID, Sign(sk, msg))))

\* Headers whose producer `k` made the VRF outputs and the seal itself.
ProducedHeaders(parent, a) ==
    { Sealed(parent, <<PreRuntime(PreDigest(i, s, t, k, k, a))>> \o d, k) :
        i \in AuthorityIndexes, s \in Slots, t \in TicketIndexes, k \in Keys,
        d \in Descriptors(a) }

\* Headers for the last slot whose VRF outputs and seal come from any mix of
\* keys, with or without descriptors.
MixedHeaders(parent, a) ==
    { Sealed(parent, <<PreRuntime(PreDigest(i, MaxSlot, t, kt, kp, a))>> \o d, sk) :
        i \in AuthorityIndexes, t \in TicketIndexes, kt \in Keys, kp \in Keys,
        sk \in SealKinds,
        d \in { <<>>, <<PostBlock(Commitments2(a)), NextEpoch(Descriptor)>> } }

\* Headers without a pre-runtime digest.
BareHeaders(parent) == { Sealed(parent, <<>>, sk) : sk \in {"k1", "absent"} }

\* Headers for the last slot made by the first validating authority.
AuthoredHeaders(parent, a) ==
    { Sealed(parent, <<PreRuntime(PreDigest(0, MaxSlot, t, k, k, a))>>, k) :
        t \in {0, 2}, k \in {a.validating.authorities[1]} }

Headers(parent, a) ==
    ProducedHeaders(parent, a) \cup MixedHeaders(parent, a) \cup BareHeaders(parent)

\* Inherent data: created or not, with or without its two entries.
InherentData(created, timestamp, slot) ==
    [created |-> created, timestamp |-> timestamp, slot |-> slot]
GoodData == { InherentData(TRUE, Some(now), Some(now)) : now \in NowSlots }
BadData ==
    { InherentData(FALSE, None, None),
      InherentData(TRUE, None, Some(MaxSlot)),
      InherentData(TRUE, Some(MaxSlot), None) }

----------------------------------------------------------------------------
(* The import-queue worker *)

NoResult == [err |-> "none"]
NoJob == [header |-> Header(0, <<>>), data |-> InherentData(FALSE, None, None),
          v |-> NoResult, i |-> NoResult]

NoQuery == [header |-> Header(0, <<>>), reader |-> "none", result |-> NoResult]
NoWorkers == <<>>

Init ==
    /\ store = [h \in {0} |-> encode(GenesisAuxiliary)]
    /\ time_source = None
    /\ pc = "idle"
    /\ job = NoJob
    /\ query = NoQuery
    /\ workers = NoWorkers

Verify_in_place(header, data) ==
    /\ LET r == verify(store, time_source, header, data) IN
        /\ job' = [header |-> header, data |-> data, v |-> r, i |-> NoResult]
        /\ time_source' = r.time_source
        /\ pc' = IF r.err = "" THEN "verified" ELSE "done"
        /\ store' = IF r.err = ""
                    THEN [store EXCEPT ![header.parent] = r.params.val.auxiliary]
                    ELSE store
    /\ UNCHANGED <<query, workers>>

\* The worker takes a header from the queue and runs verify on it.
Verify(header, data) ==
    /\ LET r == verify(store, time_source, header, data) IN
        /\ job' = [header |-> header, data |-> data, v |-> r, i |-> NoResult]
        /\ time_source' = r.time_source
        /\ pc' = IF r.err = "" THEN "verified" ELSE "done"
    /\ UNCHANGED <<store, query, workers>>

\* The verified block is handed to import_block.
ImportBlock(inner_ok) ==
    /\ pc = "verified"
    /\ LET r == import_block(store, job.v.params.val, inner_ok) IN
        /\ job' = [job EXCEPT !.i = r]
        /\ store' = r.store
    /\ pc' = "done"
    /\ UNCHANGED <<time_source, query, workers>>

\* The result is reported and the worker takes the next block.
NextBlock ==
    /\ pc = "done"
    /\ pc' = "idle"
    /\ job' = NoJob
    /\ UNCHANGED <<store, time_source, query, workers>>

Parents == DOMAIN store \cup {UnknownParent}
Context(parent) ==
    IF parent \in DOMAIN store THEN decode(store[parent]) ELSE GenesisAuxiliary

VerifyAny ==
    /\ pc = "idle"
    /\ Cardinality(DOMAIN store) <= MaxBlocks
    /\ \E parent \in Parents :
        \/ \E header \in Headers(parent, Context(parent)), data \in GoodData :
                Verify(header, data)
        \/ \E header \in BareHeaders(parent) \cup AuthoredHeaders(parent, Context(parent)),
              data \in BadData :
                Verify(header, data)

ImportAny == \E inner_ok \in BOOLEAN : ImportBlock(inner_ok)

Next == VerifyAny \/ ImportAny \/ NextBlock

Spec == Init /\ [][Next]_vars

----------------------------------------------------------------------------
(* What the properties speak about *)

\* verify has returned for the current job.
VerifyReturned == pc \in {"verified", "done"}
\* verify accepted the header.
Accepted == VerifyReturned /\ job.v.err = ""
\* import_block has returned for the current job.
ImportReturned == pc = "done" /\ job.i.err # "none"
\* import_block succeeded: the block is in the store.
Imported == ImportReturned /\ job.i.err = ""

\* The digest items of a kind in the submitted header.
Items(kind) == { n \in DOMAIN job.header.logs : job.header.logs[n].kind = kind }
Carries(kind) == Items(kind) # {}
ItemData(kind) == job.header.logs[CHOOSE n \in Items(kind) : TRUE].data

\* The record stored for the parent, and the record verify produced.
ParentRecord == decode(store[job.header.parent])
BlockRecord == decode(job.v.params.val.auxiliary)
\* The key import_block's inner importer stored the block under.
ImportedHash == Cardinality(DOMAIN store) - 1

----------------------------------------------------------------------------
(* C1: import_block returns SlotInPast, without calling the inner importer, *)
(* for every block whose pre-digest slot is less than or equal to the slot  *)
(* of the record loaded for its parent; every block that reaches the inner  *)
(* importer has a slot strictly greater than that slot.                     *)

C1_SlotCheckAtImport ==
    ImportReturned =>
        LET last_slot == decode(store[job.header.parent]).slot
            slot == ItemData("PreRuntime").slot
        IN  /\ slot <= last_slot => job.i.err = "SlotInPast" /\ ~job.i.inner_called
            /\ job.i.inner_called => slot > last_slot

C1_Witness ==
    /\ ImportReturned
    /\ job.i.err = "SlotInPast"
    /\ ItemData("PreRuntime").slot = decode(store[job.header.parent]).slot

(* C2: after import_block succeeds for a block with pre-digest slot s, the  *)
(* record stored under the block's hash has last_slot = s.                  *)

C2_LastSlotPersisted ==
    Imported => decode(store[ImportedHash]).slot = ItemData("PreRuntime").slot

(* C3: for a header with a unique pre-digest and an available parent,       *)
(* verify returns SlotInFuture exactly when pre.slot > slot_now; a header   *)
(* with pre.slot = slot_now is not rejected with SlotInFuture, and the      *)
(* check precedes the authority, seal and VRF checks.                       *)

C3_SlotInFuture ==
    (/\ VerifyReturned
     /\ job.v.slot_now.some
     /\ job.v.auxiliary.some
     /\ Cardinality(Items("PreRuntime")) = 1)
    => (job.v.err = "SlotInFuture" <=> ItemData("PreRuntime").slot > job.data.slot.val)

C3_Witness ==
    /\ Accepted
    /\ ItemData("PreRuntime").slot = job.data.slot.val

\* The submitted header without its last digest item, and that item.
PreSealHeader ==
    Header(job.header.parent, SubSeq(job.header.logs, 1, Len(job.header.logs) - 1))
LastItem == job.header.logs[Len(job.header.logs)]
\* The signature `sig` is one by the key at `index` of `set` over the pre-seal hash.
SealVerifiesAgainst(set, index) ==
    /\ index + 1 \in DOMAIN set.authorities
    /\ LastItem.kind = "Seal" /\ LastItem.engine = SASSAFRAS_ENGINE_ID
    /\ LastItem.data = Sign(set.authorities[index + 1], hash(PreSealHeader))

(* C4 as claimed: for every block accepted by verify the seal verifies      *)
(* against epoch(B).validating.authorities[pre.authority_index] and the     *)
(* pre-seal hash, epoch(B) being the state recorded for B, also when B      *)
(* carries a NextEpochDescriptor.                                           *)

C4_SealAgainstRecordedEpoch ==
    Accepted =>
        SealVerifiesAgainst(BlockRecord.validating, ItemData("PreRuntime").authority_index)

(* C4 as amended: for every block accepted by verify the seal verifies      *)
(* against the validating set of the record loaded for the parent, at       *)
(* pre.authority_index, and the pre-seal hash; that set is the validating   *)
(* set recorded for B when B carries no NextEpochDescriptor.                *)

C4_SealAgainstParentEpoch ==
    Accepted =>
        /\ SealVerifiesAgainst(ParentRecord.validating,
                               ItemData("PreRuntime").authority_index)
        /\ ~Carries("NextEpoch") => BlockRecord.validating = ParentRecord.validating

C4_Witness ==
    /\ Accepted
    /\ Carries("NextEpoch")
    /\ BlockRecord.validating.authorities # ParentRecord.validating.authorities

(* C5: the epoch index of the state verify produces for an accepted block   *)
(* is the parent's or the parent's plus one, and is the parent's plus one   *)
(* only if the header carries a NextEpochDescriptor.                        *)

C5_EpochIndexStep ==
    Accepted =>
        LET p == EpochOf(ParentRecord).epoch_index
            b == EpochOf(BlockRecord).epoch_index
        IN  /\ b \in {p, p + 1}
            /\ b = p + 1 => Carries("NextEpoch")

C5_Witness ==
    /\ Accepted
    /\ Carries("NextEpoch")
    /\ EpochOf(ParentRecord).epoch_index > 0
    /\ EpochOf(BlockRecord).epoch_index = EpochOf(ParentRecord).epoch_index + 1

(* C6: after an accepted block consumes a NextEpochDescriptor d, the new    *)
(* validating set has the authorities and randomness of the publishing set  *)
(* held before, and the new publishing set has no proofs and d's            *)
(* authorities and randomness.                                              *)

C6_RotationSwapsSets ==
    (Accepted /\ Carries("NextEpoch")) =>
        LET d == ItemData("NextEpoch") IN
        /\ BlockRecord.validating.authorities = ParentRecord.publishing.authorities
        /\ BlockRecord.validating.randomness = ParentRecord.publishing.randomness
        /\ BlockRecord.publishing.proofs = <<>>
        /\ BlockRecord.publishing.authorities = d.authorities
        /\ BlockRecord.publishing.randomness = d.randomness

C6_Witness ==
    /\ Accepted
    /\ Carries("NextEpoch")
    /\ ParentRecord.validating.authorities # ParentRecord.publishing.authorities
    /\ ParentRecord.publishing.authorities # ItemData("NextEpoch").authorities

(* C7: for an accepted block carrying a NextEpochDescriptor d the state     *)
(* verify produces has start_slot advanced by duration, the same duration   *)
(* and epoch_index plus one, as Epoch.increment(d) gives.                   *)

C7_RotationAdvancesWindow ==
    (Accepted /\ Carries("NextEpoch")) =>
        LET inc == increment(EpochOf(ParentRecord), ItemData("NextEpoch"))
            b == EpochOf(BlockRecord)
        IN  /\ b.start_slot = inc.start_slot
            /\ b.duration = inc.duration
            /\ b.epoch_index = inc.epoch_index

(* C8: for an accepted block carrying a PostBlockDescriptor with            *)
(* commitments c and no NextEpochDescriptor, publishing.proofs afterwards   *)
(* is publishing.proofs before followed by c, and publishing.authorities,   *)
(* publishing.randomness and the validating set are unchanged.              *)

C8_CommitmentsAppended ==
    (Accepted /\ Carries("PostBlock") /\ ~Carries("NextEpoch")) =>
        LET c == ItemData("PostBlock").commitments IN
        /\ BlockRecord.publishing.proofs = ParentRecord.publishing.proofs \o c
        /\ Len(BlockRecord.publishing.proofs)
              = Len(ParentRecord.publishing.proofs) + Len(c)
        /\ BlockRecord.publishing.authorities = ParentRecord.publishing.authorities
        /\ BlockRecord.publishing.randomness = ParentRecord.publishing.randomness
        /\ BlockRecord.validating = ParentRecord.validating

C8_Witness ==
    /\ Accepted
    /\ Carries("PostBlock") /\ ~Carries("NextEpoch")
    /\ Len(ItemData("PostBlock").commitments) = 2
    /\ Len(ParentRecord.publishing.proofs) = 1

\* verify got past the slot-in-future check: the five stages below decide.
ReachedStages ==
    /\ VerifyReturned
    /\ job.v.slot_now.some
    /\ job.v.auxiliary.some
    /\ Cardinality(Items("PreRuntime")) = 1
    /\ ItemData("PreRuntime").slot <= job.data.slot.val

\* Each stage as section 4.4 states it, for the author the pre-digest names.
ClaimedAuthor == ParentRecord.validating.authorities[ItemData("PreRuntime").authority_index + 1]
AuthorityStagePasses ==
    ItemData("PreRuntime").authority_index + 1 \in DOMAIN ParentRecord.validating.authorities
SealStagePasses ==
    SealVerifiesAgainst(ParentRecord.validating, ItemData("PreRuntime").authority_index)
TicketIndexStagePasses ==
    ItemData("PreRuntime").ticket_vrf_index + 1 \in DOMAIN ParentRecord.validating.proofs
TicketVRFStagePasses ==
    LET pre == ItemData("PreRuntime")
        t == make_ticket_transcript(ParentRecord.validating.randomness, pre.slot,
                                    ParentRecord.validating.epoch)
    IN  /\ pre.ticket_vrf_output = VRFOutput(ClaimedAuthor, t)
        /\ ParentRecord.validating.proofs[pre.ticket_vrf_index + 1] = VRFProof(ClaimedAuthor, t)
PostVRFStagePasses ==
    LET pre == ItemData("PreRuntime")
        t == make_post_transcript(ParentRecord.validating.randomness, pre.slot,
                                  ParentRecord.validating.epoch)
    IN  /\ pre.post_vrf_output = VRFOutput(ClaimedAuthor, t)
        /\ pre.post_vrf_proof = VRFProof(ClaimedAuthor, t)

\* The error of the earliest failing stage, "" when none fails.  A later
\* stage that needs the author or the ticket proof counts as failing when
\* there is none.
EarliestFailure ==
    IF ~AuthorityStagePasses THEN "InvalidAuthorityId"
    ELSE IF ~SealStagePasses THEN "InvalidSeal"
    ELSE IF ~TicketIndexStagePasses THEN "InvalidTicketVRFIndex"
    ELSE IF ~TicketVRFStagePasses THEN "TicketVRFVerificationFailed"
    ELSE IF ~PostVRFStagePasses THEN "PostVRFVerificationFailed"
    ELSE ""

(* C9: verify runs authority lookup, seal check, ticket-index lookup,       *)
(* ticket VRF check and post VRF check in that order; a block failing       *)
(* several stages gets the error of the earliest failing one, and verify    *)
(* produces no epoch state (no commitment appended, no rotation) unless     *)
(* all five stages passed.                                                  *)

C9_EarliestStageError ==
    ReachedStages =>
        /\ EarliestFailure # "" => job.v.err = EarliestFailure /\ ~job.v.params.some
        /\ job.v.params.some => EarliestFailure = ""
        /\ job.v.err \in {"MultiplePostBlockDescriptor", "MultipleNextEpochDescriptor"}
              => EarliestFailure = ""

C9_Witness ==
    /\ ReachedStages
    /\ AuthorityStagePasses
    /\ ~SealStagePasses
    /\ ~TicketIndexStagePasses
    /\ ~PostVRFStagePasses
    /\ Carries("PostBlock") /\ Carries("NextEpoch")
    /\ job.v.err = "InvalidSeal"

(* C10: a header that passes the earlier stages but whose digest log holds  *)
(* no seal item makes verify fail with HeaderUnsealed; a log of exactly one *)
(* pre-runtime digest and no seal yields HeaderUnsealed.                    *)

C10_MissingSealIsHeaderUnsealed ==
    (ReachedStages /\ AuthorityStagePasses /\ ~Carries("Seal"))
        => job.v.err = "HeaderUnsealed"

----------------------------------------------------------------------------
(* The DigestReader queries on their own: any digest log of up to MaxLogs   *)
(* items, one query applied to it.                                          *)

\* The digest items a log is made of: two of each kind the readers look for,
\* a seal, and a pre-runtime digest of another engine.
LogItems ==
    { PreRuntime(PreDigest(0, 1, 0, "k1", "k1", GenesisAuxiliary)),
      PreRuntime(PreDigest(1, 2, 1, "k2", "k2", GenesisAuxiliary)),
      PostBlock(Commitments1(GenesisAuxiliary)),
      PostBlock(Commitments2(GenesisAuxiliary)),
      NextEpoch(Descriptor),
      NextEpoch([authorities |-> <<"k2">>, randomness |-> "r3"]),
      Seal(SASSAFRAS_ENGINE_ID, Sign("k1", "m")),
      [kind |-> "PreRuntime", engine |-> "OTHR",
       data |-> PreDigest(0, 1, 0, "k1", "k1", GenesisAuxiliary)] }

RECURSIVE Logs(_)
Logs(n) ==
    IF n = 0 THEN { <<>> }
    ELSE Logs(n - 1) \cup { Append(l, x) : l \in { m \in Logs(n - 1) : Len(m) = n - 1 },
                                           x \in LogItems }

InitDigest ==
    /\ store = [h \in {0} |-> encode(GenesisAuxiliary)]
    /\ time_source = None
    /\ pc = "idle"
    /\ job = NoJob
    /\ workers = NoWorkers
    /\ \E logs \in Logs(MaxLogs) :
          query = [header |-> Header(0, logs), reader |-> "none", result |-> NoResult]

Query(reader, result) ==
    /\ query.reader = "none"
    /\ query' = [query EXCEPT !.reader = reader, !.result = result]
    /\ UNCHANGED <<store, time_source, pc, job, workers>>

FindPreDigest == Query("find_pre_digest", find_pre_digest(query.header))
FindPostBlockDescriptor ==
    Query("find_post_block_descriptor", find_post_block_descriptor(query.header))
FindNextEpochDescriptor ==
    Query("find_next_epoch_descriptor", find_next_epoch_descriptor(query.header))

NextDigest == FindPreDigest \/ FindPostBlockDescriptor \/ FindNextEpochDescriptor

SpecDigest == InitDigest /\ [][NextDigest]_vars

\* The positions of the items the reader of the query looks for, and the
\* Multiple* error of that reader.
QueryKind ==
    CASE query.reader = "find_pre_digest" -> "PreRuntime"
      [] query.reader = "find_post_block_descriptor" -> "PostBlock"
      [] OTHER -> "NextEpoch"
QueryMultiple ==
    CASE query.reader = "find_pre_digest" -> "MultiplePreRuntimeDigest"
      [] query.reader = "find_post_block_descriptor" -> "MultiplePostBlockDescriptor"
      [] OTHER -> "MultipleNextEpochDescriptor"
Matching ==
    { n \in DOMAIN query.header.logs :
        /\ query.header.logs[n].kind = QueryKind
        /\ query.header.logs[n].engine = SASSAFRAS_ENGINE_ID }

(* C11: each of find_pre_digest, find_post_block_descriptor and            *)
(* find_next_epoch_descriptor returns the matching item when exactly one    *)
(* item of its kind is in the log and fails with its Multiple* error when   *)
(* two or more are, whatever items of other kinds lie between them; when    *)
(* none is, find_pre_digest fails with NoPreRuntimeDigest and the other two *)
(* succeed with an absent result.                                           *)

C11_AtMostOne ==
    query.reader # "none" =>
        LET r == query.result IN
        /\ Cardinality(Matching) = 1 =>
              /\ r.err = ""
              /\ r.val = Some(query.header.logs[CHOOSE n \in Matching : TRUE].data)
        /\ Cardinality(Matching) >= 2 => r.err = QueryMultiple
        /\ Cardinality(Matching) = 0 =>
              IF query.reader = "find_pre_digest"
              THEN r.err = "NoPreRuntimeDigest"
              ELSE r.err = "" /\ r.val = None

C11_Witness ==
    /\ query.reader = "find_post_block_descriptor"
    /\ Matching = {1, 3}
    /\ query.header.logs[2].kind = "NextEpoch"
    /\ query.result.err = "MultiplePostBlockDescriptor"

----------------------------------------------------------------------------
(* The trusted path: BlockImport::import_block called without a preceding   *)
(* Verifier::verify (locally authored blocks).                              *)

\* The blocks handed over on the trusted path: for a parent the client has,
\* the BlockImportParams verify builds for a header of that parent; for a
\* parent it does not have, a block claiming the last slot.
TrustedBlocks(parent) ==
    IF parent \in DOMAIN store
    THEN LET results == { verify(store, None, header, InherentData(TRUE, Some(MaxSlot), Some(MaxSlot))) :
                            header \in ProducedHeaders(parent, Context(parent)) }
         IN  { r.params.val : r \in { x \in results : x.err = "" } }
    ELSE { [header |-> Header(parent, <<PreRuntime(PreDigest(0, MaxSlot, 0, "k1", "k1",
                                                      GenesisAuxiliary))>>),
            post_digests |-> <<Seal(SASSAFRAS_ENGINE_ID, Sign("k1", "m"))>>,
            auxiliary |-> encode(GenesisAuxiliary)] }

ImportTrusted(block, inner_ok) ==
    /\ LET r == import_block(store, block, inner_ok) IN
        /\ job' = [header |-> Header(block.header.parent,
                                     block.header.logs \o block.post_digests),
                   data |-> NoJob.data, v |-> NoResult, i |-> r]
        /\ store' = r.store
    /\ pc' = "done"
    /\ UNCHANGED <<time_source, query, workers>>

ImportTrustedAny ==
    /\ pc = "idle"
    /\ Cardinality(DOMAIN store) <= MaxBlocks
    /\ \E parent \in Parents, inner_ok \in BOOLEAN :
          \E block \in TrustedBlocks(parent) : ImportTrusted(block, inner_ok)

NextTrusted == VerifyAny \/ ImportAny \/ NextBlock \/ ImportTrustedAny

SpecTrusted == Init /\ [][NextTrusted]_vars

(* C12: neither verify nor import_block accepts a block whose parent has   *)
(* no record in the store: the load for such a parent fails with            *)
(* ParentUnavailable, or FetchParentHeader when the parent header cannot be *)
(* fetched, and no epoch state is produced or stored for the child.         *)

C12_ParentRecordRequired ==
    job.header.parent \notin DOMAIN store =>
        /\ (pc = "done" /\ job.v.err # "none" /\ job.v.slot_now.some) =>
              /\ job.v.err \in {"ParentUnavailable", "FetchParentHeader"}
              /\ ~job.v.params.some
        /\ (pc = "done" /\ job.i.err # "none") =>
              /\ job.i.err \in {"ParentUnavailable", "FetchParentHeader"}
              /\ ~job.i.inner_called

----------------------------------------------------------------------------
\* A step of the store: every record already stored stays as it is, verify
\* writes nothing, and what an import adds is the one record verify built
\* for the block, under a hash that had no record.
StoreStep ==
    /\ \A h \in DOMAIN store : h \in DOMAIN store' /\ store'[h] = store[h]
    /\ pc = "idle" /\ pc' # "idle" => store' = store
    /\ store' # store =>
          /\ pc = "verified" /\ job'.i.err = ""
          /\ \E h \in DOMAIN store' \ DOMAIN store :
                /\ DOMAIN store' = DOMAIN store \cup {h}
                /\ store'[h] = job.v.params.val.auxiliary

\* The record verify worked from is the one stored for the header's parent.
LoadedIsParentRecord ==
    (VerifyReturned /\ job.v.auxiliary.some) => job.v.auxiliary.val = ParentRecord

(* C13: verifying or importing a block, successfully or not, leaves the    *)
(* record stored under its parent's hash (and every other stored record)    *)
(* unchanged; the record verify produces is stored only under the block's   *)
(* own hash, a failed verification writes nothing, and a block is always    *)
(* verified against the record stored for its parent, so that siblings are  *)
(* verified against the same state in whatever order they arrive.           *)

----------------------------------------------------------------------------
(* Two import-queue workers, each importing the blocks of its own branch    *)
(* ancestor first, against the one store and the one TimeSource.  A worker  *)
(* runs verify, then the first half of import_block (the load and the slot  *)
(* check), then the inner importer; the other worker may take steps in      *)
(* between.                                                                 *)

Workers == {"a", "b"}

\* The headers a branch's author produces on top of the branch's tip, whose
\* record is `a`.
BranchHeaders(parent, a) ==
    { Sealed(parent, <<PreRuntime(PreDigest(0, s, t, k, k, a))>> \o d, k) :
        s \in NowSlots, t \in TicketIndexes, k \in {a.validating.authorities[1]},
        d \in { <<>>, <<PostBlock(Commitments1(a))>>,
                <<PostBlock(Commitments2(a)), NextEpoch(Descriptor)>> } }

\* `chain` lists the blocks the worker has imported, ancestor first: the hash
\* each got and the record the block gets when the branch is imported with no
\* other branch around.
IdleWorker == [pc |-> "idle", header |-> Header(0, <<>>), v |-> NoResult,
               checked |-> NoResult, chain |-> <<>>]
tip(w) == IF workers[w].chain = <<>> THEN 0 ELSE workers[w].chain[Len(workers[w].chain)].hash
tip_record(w) ==
    IF workers[w].chain = <<>> THEN GenesisAuxiliary
    ELSE workers[w].chain[Len(workers[w].chain)].alone

\* The record verify builds for `header` from the record `parent_record`
\* alone.
alone_record(parent_record, header, data) ==
    decode(verify([h \in {header.parent} |-> encode(parent_record)], None,
                  header, data).params.val.auxiliary)

InitBranches ==
    /\ store = [h \in {0} |-> encode(GenesisAuxiliary)]
    /\ time_source = None
    /\ pc = "idle"
    /\ job = NoJob
    /\ query = NoQuery
    /\ workers = [w \in Workers |-> IdleWorker]

WorkerVerify(w) ==
    /\ workers[w].pc = "idle"
    /\ Cardinality(DOMAIN store) <= MaxBlocks
    /\ \E header \in BranchHeaders(tip(w), decode(store[tip(w)])),
          data \in { InherentData(TRUE, Some(MaxSlot), Some(MaxSlot)) } :
          LET r == verify(store, time_source, header, data) IN
          /\ time_source' = r.time_source
          /\ IF r.err = ""
             THEN workers' = [workers EXCEPT ![w].pc = "verified", ![w].header = header,
                                             ![w].v = [r EXCEPT !.time_source = data]]
             ELSE UNCHANGED workers
    /\ UNCHANGED <<store, pc, job, query>>

WorkerCheck(w) ==
    /\ workers[w].pc = "verified"
    /\ LET c == import_check(store, workers[w].v.params.val) IN
          workers' = [workers EXCEPT ![w].checked = c,
                                     ![w].pc = IF c.err = "" THEN "checked" ELSE "idle"]
    /\ UNCHANGED <<store, time_source, pc, job, query>>

WorkerImport(w, inner_ok) ==
    /\ workers[w].pc = "checked"
    /\ LET r == import_inner(store, workers[w].v.params.val, inner_ok, workers[w].checked)
           block == [hash |-> block_hash(store),
                     alone |-> alone_record(tip_record(w), workers[w].header,
                                            workers[w].v.time_source)]
       IN  /\ store' = r.store
           /\ workers' = [workers EXCEPT
                  ![w].pc = "idle",
                  ![w].chain = IF r.err = "" THEN Append(@, block) ELSE @]
    /\ UNCHANGED <<time_source, pc, job, query>>

NextBranches ==
    \E w \in Workers :
        \/ WorkerVerify(w)
        \/ WorkerCheck(w)
        \/ \E inner_ok \in BOOLEAN : WorkerImport(w, inner_ok)

SpecBranches == InitBranches /\ [][NextBranches]_vars

(* C14: with two branches imported concurrently, each ancestor first, in    *)
(* every interleaving the record stored for each block is the record the    *)
(* block gets when its branch is imported alone, and verify and             *)
(* import_block of a block work from the record its ancestor on the branch  *)
(* wrote.                                                                   *)

----------------------------------------------------------------------------
(* Concurrent calls of TimeSource::extract_timestamp_and_slot on one        *)
(* TimeSource: each call reads its inherent data, then locks the mutex,     *)
(* takes the drift entry and releases the mutex.                            *)

Callers == 1..MaxCallers
\* The drift entries the TimeSource may hold when the calls start.
DriftEntries == { None, Some(0), Some(5) }
CallData ==
    { InherentData(TRUE, Some(MaxSlot), Some(MaxSlot)),
      InherentData(TRUE, None, Some(MaxSlot)),
      InherentData(TRUE, Some(MaxSlot), None) }

IdleCall == [pc |-> "idle", data |-> InherentData(FALSE, None, None),
             taken |-> None, reads |-> 0, drift |-> 0]

InitTimeSource ==
    /\ store = [h \in {0} |-> encode(GenesisAuxiliary)]
    /\ pc = "idle"
    /\ job = NoJob
    /\ query = NoQuery
    /\ \E entry \in DriftEntries :
          /\ time_source = entry
          /\ workers = [calls |-> [c \in Callers |-> IdleCall], lock |-> 0,
                        stored |-> entry]

\* The call starts: Err when an inherent is missing, else on to the lock.
Call(c, data) ==
    /\ workers.calls[c].pc = "idle"
    /\ workers' = [workers EXCEPT
          !.calls[c].data = data,
          !.calls[c].pc = IF inherents(data) # "" THEN "failed" ELSE "ready"]
    /\ UNCHANGED <<store, time_source, pc, job, query>>

\* self.0.lock()
Lock(c) ==
    /\ workers.calls[c].pc = "ready"
    /\ workers.lock = 0
    /\ workers' = [workers EXCEPT !.lock = c, !.calls[c].pc = "locked"]
    /\ UNCHANGED <<store, time_source, pc, job, query>>

\* .0.take()
Take(c) ==
    /\ workers.calls[c].pc = "locked"
    /\ LET taken == take(time_source) IN
        /\ time_source' = taken.left
        /\ workers' = [workers EXCEPT !.calls[c].taken = taken.val,
                                      !.calls[c].reads = @ + 1,
                                      !.calls[c].pc = "taken"]
    /\ UNCHANGED <<store, pc, job, query>>

\* .unwrap_or_default(), the guard dropped, Ok returned.
Return(c) ==
    /\ workers.calls[c].pc = "taken"
    /\ workers' = [workers EXCEPT !.lock = 0,
                                  !.calls[c].drift = unwrap_or_default(workers.calls[c].taken),
                                  !.calls[c].pc = "returned"]
    /\ UNCHANGED <<store, time_source, pc, job, query>>

NextTimeSource ==
    \E c \in Callers :
        \/ \E data \in CallData : Call(c, data)
        \/ Lock(c)
        \/ Take(c)
        \/ Return(c)

SpecTimeSource == InitTimeSource /\ [][NextTimeSource]_vars

\* The calls that have taken from the drift entry, and those among them that
\* found the stored offset there.
Took == { c \in Callers : workers.calls[c].pc \in {"taken", "returned"} }
Received == { c \in Took : workers.calls[c].taken.some }

(* C15: a stored clock-drift offset is returned by at most one              *)
(* extract_timestamp_and_slot call: in every interleaving exactly one       *)
(* successful call receives it and every other call receives the zero       *)
(* duration; each call reads the drift entry at most once; a call that      *)
(* fails for a missing inherent does not consume the offset.                *)

C15_ConsumeOnce ==
    /\ Cardinality(Received) <= 1
    /\ (workers.stored.some /\ Took # {}) => Cardinality(Received) = 1
    /\ \A c \in Received : workers.calls[c].taken = workers.stored
    /\ \A c \in Callers :
          /\ workers.calls[c].reads <= 1
          /\ workers.calls[c].pc = "returned" =>
                workers.calls[c].drift =
                    IF c \in Received THEN workers.stored.val ELSE 0
          /\ workers.calls[c].pc = "failed" =>
                workers.calls[c].reads = 0 /\ workers.calls[c].drift = 0
    /\ Took = {} => time_source = workers.stored
    /\ Took # {} => time_source = None

\* One call failed for a missing inherent, another received the stored
\* offset and a third, which locked after it, received zero.
C15_Witness ==
    /\ workers.stored = Some(5)
    /\ \E c1, c2, c3 \in Callers :
          /\ workers.calls[c1].pc = "failed"
          /\ workers.calls[c2].pc = "returned" /\ workers.calls[c2].drift = 5
          /\ workers.calls[c3].pc = "returned" /\ workers.calls[c3].drift = 0

----------------------------------------------------------------------------
(* The import queue hands a rejected header to verify once more, at the     *)
(* same or a later clock reading and with the store as it was.              *)

Retry(data) ==
    /\ pc = "done"
    /\ job.v.err \notin {"none", ""}
    /\ "first" \notin DOMAIN job
    /\ job.v.slot_now.some => data.slot.val >= job.v.slot_now.val
    /\ LET r == verify(store, time_source, job.header, data) IN
        /\ job' = [header |-> job.header, data |-> data, v |-> r, i |-> NoResult,
                   first |-> job.v]
        /\ time_source' = r.time_source
        /\ pc' = IF r.err = "" THEN "verified" ELSE "done"
    /\ UNCHANGED <<store, query, workers>>

RetryAny == \E data \in GoodData : Retry(data)

NextRetry == VerifyAny \/ ImportAny \/ NextBlock \/ RetryAny

SpecRetry == Init /\ [][NextRetry]_vars

\* The header was verified a second time.
Retried == "first" \in DOMAIN job
\* A header rejected for its slot, verified again when the slot has come.
SlotHasCome ==
    /\ Retried
    /\ job.first.err = "SlotInFuture"
    /\ ItemData("PreRuntime").slot <= job.data.slot.val
\* Everything verify checks after the slot passes for the header.
OtherStagesPass ==
    /\ EarliestFailure = ""
    /\ Cardinality(Items("PostBlock")) <= 1
    /\ Cardinality(Items("NextEpoch")) <= 1

(* C16 as claimed: a header rejected with SlotInFuture and verified again   *)
(* against the same parent record once slot_now >= pre.slot is not rejected *)
(* with SlotInFuture and is accepted if the other stages pass; a header     *)
(* rejected with any other error is rejected again when verified at any     *)
(* later slot_now.                                                          *)

C16_OnlySlotInFutureTransient ==
    /\ SlotHasCome =>
          /\ job.v.err # "SlotInFuture"
          /\ OtherStagesPass => job.v.err = ""
    /\ (Retried /\ job.first.err # "SlotInFuture") => job.v.err # ""

(* C16 as amended: the same, except that the rejections that last are those *)
(* verify returns after it has read slot_now, that is all but Runtime and   *)
(* Extraction, and that they last while the store is unchanged: the second  *)
(* verification returns the same error as the first.                        *)

C16_HeaderRejectionsPermanent ==
    /\ SlotHasCome =>
          /\ job.v.err # "SlotInFuture"
          /\ OtherStagesPass => job.v.err = ""
    /\ (Retried /\ job.first.err \notin {"SlotInFuture", "Runtime", "Extraction"})
          => job.v.err = job.first.err

C16_Witness ==
    /\ SlotHasCome
    /\ job.first.slot_now.val < job.data.slot.val
    /\ job.v.err = ""

----------------------------------------------------------------------------
(* The ticket order of a new validating set *)

\* The outside-in order of a sequence: the elements at the indices
\* 0, N-1, 1, N-2, 2, ... of the original.
outside_in(proofs) ==
    LET N == Len(proofs) IN
    [i \in 1..N |-> IF i % 2 = 1 THEN proofs[(i + 1) \div 2]
                    ELSE proofs[N - (i \div 2) + 1]]

\* The commitments the publishing set held when it was swapped in: those of
\* the parent's record followed by those the header itself carries.
Accumulated ==
    ParentRecord.publishing.proofs
        \o (IF Carries("PostBlock") THEN ItemData("PostBlock").commitments ELSE <<>>)

(* C17: after an accepted block consumes a NextEpochDescriptor the new      *)
(* validating.proofs is the outside-in permutation of the N commitments     *)
(* accumulated in the old publishing.proofs: the elements at the original   *)
(* indices 0, N-1, 1, N-2, 2, ... in that order, N of them.                 *)

C17_OutsideInOrder ==
    (Accepted /\ Carries("NextEpoch")) =>
        /\ Len(BlockRecord.validating.proofs) = Len(Accumulated)
        /\ BlockRecord.validating.proofs = outside_in(Accumulated)

----------------------------------------------------------------------------
(* Blocks that announce the next epoch: any descriptor, and tickets for any *)
(* slot, can be put in a header by its author.                              *)

\* A slot after the end of the next epoch.
FarSlot == 2 * MaxSlot + 1

\* NextEpochDescriptors as an author may write them: no authority, one, two.
EpochDescriptors ==
    { [authorities |-> auth, randomness |-> "r2"] :
        auth \in { <<>>, <<"k1">>, <<"k2", "k1">> } }

\* Ticket commitments of key k for slot s of the next epoch's set.
CommitmentsFor(k, s, a) == <<TicketProof(k, s, a.publishing)>>

\* Headers whose producer made the VRF outputs and the seal, with or without
\* commitments and a descriptor.
RotatingHeaders(parent, a) ==
    { Sealed(parent, <<PreRuntime(PreDigest(i, s, t, k, k, a))>> \o d, k) :
        i \in AuthorityIndexes, s \in {MaxSlot, FarSlot}, t \in {0, 2}, k \in Keys,
        d \in { <<>> } \cup
              { <<PostBlock(CommitmentsFor("k2", FarSlot, a)), NextEpoch(desc)>> :
                    desc \in EpochDescriptors } }

ClockData == { InherentData(TRUE, Some(now), Some(now)) : now \in {MaxSlot, FarSlot} }

VerifyRotating ==
    /\ pc = "idle"
    /\ Cardinality(DOMAIN store) <= MaxBlocks
    /\ \E parent \in DOMAIN store :
        \E header \in RotatingHeaders(parent, Context(parent)), data \in ClockData :
            Verify(header, data)

NextRotation == VerifyRotating \/ ImportAny \/ NextBlock

SpecRotation == Init /\ [][NextRotation]_vars

\* Both sets of a record have authorities.
HasAuthorities(record) ==
    /\ record.validating.authorities # <<>>
    /\ record.publishing.authorities # <<>>

(* C18: starting from a genesis record whose validating and publishing sets *)
(* have authorities, after any sequence of accepted blocks, carrying any    *)
(* NextEpochDescriptors, both sets of every record have authorities: those  *)
(* in the store and the one verify produces for an accepted block.          *)

C18_AuthoritiesNonEmpty ==
    /\ \A h \in DOMAIN store : HasAuthorities(decode(store[h]))
    /\ Accepted => HasAuthorities(BlockRecord)

\* The slot lies in the window of the epoch the record describes.
InWindow(slot, record) ==
    /\ EpochOf(record).start_slot <= slot
    /\ slot < end_slot(EpochOf(record))

(* C20: every block verify accepts against the validating set of an epoch E *)
(* has start_slot(E) <= pre.slot < start_slot(E) + duration(E), E being the *)
(* epoch of the record loaded for the parent; a block whose slot lies       *)
(* outside that range is not accepted.                                      *)

C20_SlotInEpochWindow ==
    Accepted => InWindow(ItemData("PreRuntime").slot, ParentRecord)

----------------------------------------------------------------------------
(* Epoch arithmetic at its width. start_slot, duration and epoch_index are  *)
(* u64; a u64 is written as four 16-bit limbs, the least significant first. *)

LimbBase == 65536
MaxRotations == 3

\* The u64 values n and 2^64 - n, for 0 <= n < 2^16 and 1 <= n < 2^16.
U64(n) == <<n, 0, 0, 0>>
U64Below(n) == <<LimbBase - n, LimbBase - 1, LimbBase - 1, LimbBase - 1>>

\* a + b limb by limb: the sum modulo 2^64 and the carry out of the top limb.
add_with_carry(a, b) ==
    LET s1 == a[1] + b[1]
        s2 == a[2] + b[2] + (s1 \div LimbBase)
        s3 == a[3] + b[3] + (s2 \div LimbBase)
        s4 == a[4] + b[4] + (s3 \div LimbBase)
    IN  [sum |-> <<s1 % LimbBase, s2 % LimbBase, s3 % LimbBase, s4 % LimbBase>>,
         carry |-> s4 \div LimbBase]
overflows(a, b) == add_with_carry(a, b).carry # 0

\* The `+` of two u64: with overflow checks compiled in an overflow panics,
\* without them the sum wraps.
add(a, b, overflow_checks) ==
    [panic |-> overflows(a, b) /\ overflow_checks,
     wrapped |-> overflows(a, b) /\ ~overflow_checks,
     val |-> add_with_carry(a, b).sum]

\* Epoch::increment on u64 fields.
increment_u64(self, descriptor, overflow_checks) ==
    LET index == add(self.epoch_index, U64(1), overflow_checks)
        start == add(self.start_slot, self.duration, overflow_checks)
    IN  [panic |-> index.panic \/ start.panic,
         wrapped |-> index.wrapped \/ start.wrapped,
         val |-> [epoch_index |-> index.val,
                  start_slot |-> start.val,
                  duration |-> self.duration,
                  validating |-> self.publishing,
                  publishing |-> ValidatorSet(<<>>, descriptor.authorities,
                                              descriptor.randomness)]]

\* Epoch::end_slot on u64 fields.
end_slot_u64(self, overflow_checks) ==
    add(self.start_slot, self.duration, overflow_checks)

\* Epochs with start_slot + duration and epoch_index + 1 below 2^64: a
\* genesis epoch, and the epochs 2^64 - 4 increments of a genesis epoch of
\* duration one lead to.
SeedEpoch(index, start, duration) ==
    [epoch_index |-> index, start_slot |-> start, duration |-> duration,
     validating |-> ValidatorSet(<<>>, <<"k1">>, "r0"),
     publishing |-> ValidatorSet(<<>>, <<"k2", "k1">>, "r1")]
SeedEpochs ==
    { SeedEpoch(U64(0), U64(s), U64(d)) : s \in {1, 2}, d \in {1, 2, MaxSlot} }
    \cup { SeedEpoch(U64Below(4), U64Below(4 - s), U64(1)) : s \in {1, 2} }

InitEpochs ==
    /\ store = [h \in {0} |-> encode(GenesisAuxiliary)]
    /\ time_source = None
    /\ pc = "idle"
    /\ job = NoJob
    /\ query = NoQuery
    /\ \E epoch \in SeedEpochs :
          workers = [epoch |-> epoch, rotations |-> 0, panicked |-> FALSE,
                     wrapped |-> FALSE, end |-> None]

\* The epoch changes: increment is called with the descriptor of the block
\* that announced the next epoch.
Increment(descriptor, overflow_checks) ==
    /\ ~workers.panicked
    /\ workers.rotations < MaxRotations
    /\ LET r == increment_u64(workers.epoch, descriptor, overflow_checks) IN
        workers' = IF r.panic THEN [workers EXCEPT !.panicked = TRUE]
                   ELSE [workers EXCEPT !.epoch = r.val,
                                        !.rotations = @ + 1,
                                        !.wrapped = @ \/ r.wrapped,
                                        !.end = None]
    /\ UNCHANGED <<store, time_source, pc, job, query>>

\* The end of the current epoch is asked for.
EndSlot(overflow_checks) ==
    /\ ~workers.panicked
    /\ ~workers.end.some
    /\ LET r == end_slot_u64(workers.epoch, overflow_checks) IN
        workers' = IF r.panic THEN [workers EXCEPT !.panicked = TRUE]
                   ELSE [workers EXCEPT !.end = Some(r.val),
                                        !.wrapped = @ \/ r.wrapped]
    /\ UNCHANGED <<store, time_source, pc, job, query>>

NextEpochs ==
    \/ \E descriptor \in EpochDescriptors, overflow_checks \in BOOLEAN :
            Increment(descriptor, overflow_checks)
    \/ \E overflow_checks \in BOOLEAN : EndSlot(overflow_checks)

SpecEpochs == InitEpochs /\ [][NextEpochs]_vars

(* C19: for every reachable Epoch duration > 0 and start_slot + duration    *)
(* fits in a u64, and neither Epoch.end_slot nor Epoch.increment overflows, *)
(* whether the overflow would wrap or panic, after any number of rotations. *)

C19_NoOverflow ==
    /\ workers.epoch.duration # U64(0)
    /\ ~overflows(workers.epoch.start_slot, workers.epoch.duration)
    /\ ~workers.wrapped
    /\ ~workers.panicked

----------------------------------------------------------------------------
(* Blocks without descriptors *)

\* The record stored for the block import_block has just imported.
StoredRecord == decode(store[ImportedHash])

\* Two records describe the same epoch state: index, window and both sets.
SameEpochState(r1, r2) ==
    /\ EpochOf(r1) = EpochOf(r2)
    /\ r1.validating = r2.validating
    /\ r1.publishing = r2.publishing

(* C21: for every accepted block that carries neither a PostBlockDescriptor *)
(* nor a NextEpochDescriptor, the epoch state recorded for the block is the *)
(* parent's (same epoch_index, start_slot, duration, validating and         *)
(* publishing sets), and last_slot of the recorded state is pre.slot.       *)

C21_NoDescriptorNoEpochChange ==
    (Imported /\ ~Carries("PostBlock") /\ ~Carries("NextEpoch")) =>
        /\ SameEpochState(StoredRecord, ParentRecord)
        /\ StoredRecord.slot = ItemData("PreRuntime").slot

\* The last n elements of a sequence, and the elements before them.
Tail_n(seq, n) == SubSeq(seq, Len(seq) - n + 1, Len(seq))
Front_n(seq, n) == SubSeq(seq, 1, Len(seq) - n)

(* C22: when an accepted block carries both a PostBlockDescriptor with      *)
(* commitments c and a NextEpochDescriptor, c is appended to the old        *)
(* publishing.proofs before the rotation moves that set into validating:    *)
(* the resulting validating.proofs is the old publishing.proofs followed by *)
(* c, so no commitment is lost, and the resulting publishing.proofs is      *)
(* empty.                                                                   *)

C22_CommitmentsBeforeRotation ==
    (Accepted /\ Carries("PostBlock") /\ Carries("NextEpoch")) =>
        LET c == ItemData("PostBlock").commitments
            proofs == BlockRecord.validating.proofs
        IN  /\ Len(proofs) = Len(ParentRecord.publishing.proofs) + Len(c)
            /\ Tail_n(proofs, Len(c)) = c
            /\ Front_n(proofs, Len(c)) = ParentRecord.publishing.proofs
            /\ BlockRecord.publishing.proofs = <<>>

\* A rotation by a block with two commitments, on a parent whose publishing
\* set already holds one.
C22_Witness ==
    /\ Accepted
    /\ Carries("PostBlock") /\ Carries("NextEpoch")
    /\ Len(ItemData("PostBlock").commitments) = 2
    /\ Len(ParentRecord.publishing.proofs) = 1
    /\ Len(BlockRecord.validating.proofs) = 3

----------------------------------------------------------------------------
(* Headers whose VRF material is built for either set of the parent's       *)
(* record: an author may use the next epoch's number and randomness.        *)

SetNames == {"validating", "publishing"}
SetOf(a, name) == IF name = "validating" THEN a.validating ELSE a.publishing

\* A pre-digest with the ticket output built for one set and the post-block
\* VRF for another.
CrossedPreDigest(i, s, t, k, a, ticket_set, post_set) ==
    [authority_index |-> i, slot |-> s, ticket_vrf_index |-> t,
     ticket_vrf_output |-> TicketOutput(k, s, SetOf(a, ticket_set)),
     post_vrf_output |-> PostOutput(k, s, SetOf(a, post_set)),
     post_vrf_proof |-> PostProof(k, s, SetOf(a, post_set))]

\* Headers for the last slot with commitments for that slot of the next
\* epoch, with or without a descriptor.
CrossedHeaders(parent, a) ==
    { Sealed(parent,
             <<PreRuntime(CrossedPreDigest(i, MaxSlot, t, k, a, ticket_set, post_set))>>
                 \o d, k) :
        i \in AuthorityIndexes, t \in {0, 2}, k \in Keys,
        ticket_set \in SetNames, post_set \in SetNames,
        d \in { <<>>,
                <<PostBlock(CommitmentsFor("k2", MaxSlot, a)), NextEpoch(Descriptor)>>,
                <<NextEpoch(Descriptor)>> } }

VerifyCrossed ==
    /\ pc = "idle"
    /\ Cardinality(DOMAIN store) <= MaxBlocks
    /\ \E parent \in DOMAIN store :
        \E header \in CrossedHeaders(parent, Context(parent)), data \in GoodData :
            Verify(header, data)

NextTranscripts == VerifyCrossed \/ ImportAny \/ NextBlock

SpecTranscripts == Init /\ [][NextTranscripts]_vars

\* publishing.epoch = validating.epoch + 1 in a record.
EpochsInStep(record) == record.publishing.epoch = record.validating.epoch + 1

\* The VRF material of the submitted pre-digest is over the transcripts of `set`.
TranscriptsOf(set) ==
    LET pre == ItemData("PreRuntime")
        ticket == make_ticket_transcript(set.randomness, pre.slot, set.epoch)
        post == make_post_transcript(set.randomness, pre.slot, set.epoch)
    IN  /\ pre.ticket_vrf_output.transcript = ticket
        /\ ParentRecord.validating.proofs[pre.ticket_vrf_index + 1].transcript = ticket
        /\ pre.post_vrf_output.transcript = post
        /\ pre.post_vrf_proof.transcript = post

(* C23: from a genesis record with publishing.epoch = validating.epoch + 1, *)
(* every record, stored or produced by verify for an accepted block, has    *)
(* publishing.epoch = validating.epoch + 1; a rotation raises               *)
(* validating.epoch by exactly one and a block without a descriptor leaves  *)
(* it; and the ticket and post VRF transcripts of an accepted block are     *)
(* built from the epoch number and randomness of the validating set of the  *)
(* parent's record, never the publishing set's.                             *)

C23_PerSetEpochNumbering ==
    /\ \A h \in DOMAIN store : EpochsInStep(decode(store[h]))
    /\ Accepted =>
          /\ EpochsInStep(BlockRecord)
          /\ BlockRecord.validating.epoch =
                ParentRecord.validating.epoch + (IF Carries("NextEpoch") THEN 1 ELSE 0)
          /\ TranscriptsOf(ParentRecord.validating)
          /\ ~TranscriptsOf(ParentRecord.publishing)

\* A block of the second epoch that announces the third is accepted.
C23_Witness ==
    /\ Accepted
    /\ Carries("NextEpoch")
    /\ ParentRecord.validating.epoch = 1
    /\ BlockRecord.validating.epoch = 2
    /\ BlockRecord.publishing.epoch = 3
    /\ ParentRecord.validating.randomness # ParentRecord.publishing.randomness

====
